---- MODULE Spec2Model ----
(***************************************************************************)
(* A model of src/main.py: the TodoStore (ordered task map, completion     *)
(* counter, capped completion log, JSON state file), the AssetRegistry     *)
(* (cached widget descriptor, remote/local manifest resolution), the       *)
(* call-tool and read-resource request handlers, and the store's methods   *)
(* as coroutines on the asyncio event loop.                                *)
(*                                                                         *)
(* A Python str is modelled as a sequence of tokens: a token is either one *)
(* whitespace character or a run of text that neither starts nor ends with *)
(* whitespace, so "" is <<>>, "welcome" is <<"welcome">> and " a " is      *)
(* <<" ", "a", " ">>.                                                      *)
(* A JSON value is a record tagged by its field t.                         *)
(***************************************************************************)
EXTENDS Integers, Sequences, FiniteSets, TLC

\* ---------------------------------------------------------------- bounds

\* Operations (handler or store calls, restarts) in one behaviour.
MaxOps == 2
\* How many distinct values uuid4().hex[:8] can take in the model.
NumIds == 2
\* The wall clock, in seconds, runs from 1 to MaxClock.
MaxClock == 2
\* Coroutines (requests in flight) on the event loop in one behaviour.
NumCoros == 2

\* ------------------------------------------------------ program constants

\* The completion log keeps the last LogCap records (main.py:104, 174-175).
LogCap == 50

VARIABLES
    proc,               \* "running", or "crashed" when TodoStore() raised at import
    tasks,              \* TodoStore._tasks: the OrderedDict as a sequence of TodoTask
    completed_total,    \* TodoStore._completed_total
    completed_log,      \* TodoStore._completed_log
    last_completed_at,  \* TodoStore._last_completed_at
    disk,               \* the content of todo_state.json
    widget,             \* AssetRegistry._snapshot
    config,             \* USE_DEPLOYED_TEMPLATE and SERVER_URL, read from the environment
    now,                \* the wall clock (seconds)
    nops,               \* operations performed so far
    ret,                \* what the last operation was given and what it returned
    coros,              \* the coroutines on the event loop: where each stands
    lock,               \* TodoStore._lock: an asyncio.Lock
    loop                \* 0, or the coroutine that keeps the loop's thread in
                        \* a synchronous call

vars == <<proc, tasks, completed_total, completed_log, last_completed_at,
          disk, widget, config, now, nops, ret, coros, lock, loop>>

asyncVars == <<coros, lock, loop>>

storeVars == <<tasks, completed_total, completed_log, last_completed_at>>

\* ------------------------------------------------------------ Python values

None == [t |-> "None"]

Some(s) == [t |-> "str", s |-> s]

IsWhitespace(tok) == tok \in {" ", "\t", "\n"}

RECURSIVE LStrip(_)
LStrip(s) ==
    IF s # <<>> /\ IsWhitespace(Head(s)) THEN LStrip(Tail(s)) ELSE s

RECURSIVE RStrip(_)
RStrip(s) ==
    IF s # <<>> /\ IsWhitespace(s[Len(s)])
    THEN RStrip(SubSeq(s, 1, Len(s) - 1))
    ELSE s

\* str.strip()
Strip(s) == RStrip(LStrip(s))

\* datetime.utcnow().replace(microsecond=0).isoformat() + "Z" at clock value c
IsoZ(c) == <<"T" \o ToString(c) \o "Z">>

\* seq[-n:] for n > 0
LastN(seq, n) ==
    IF Len(seq) <= n THEN seq ELSE SubSeq(seq, Len(seq) - n + 1, Len(seq))

Min(a, b) == IF a <= b THEN a ELSE b

\* -------------------------------------------------------------- JSON values

JMissing == [t |-> "missing"]

JNull == [t |-> "null"]

JInt(n) == [t |-> "int", n |-> n]

JStr(s) == [t |-> "str", s |-> s]

JList(items) == [t |-> "list", items |-> items]

\* A JSON object with the four keys of the state file (JMissing: key absent).
JObj(ts, cc, lca, ct) ==
    [t |-> "dict", tasks |-> ts, completedCount |-> cc,
     lastCompletedAt |-> lca, completedTasks |-> ct]

\* asdict(task) as a JSON object
JTaskDict(task) ==
    [t |-> "dict", shape |-> "task", id |-> task.id, title |-> task.title,
     created_at |-> task.created_at, done |-> task.done]

\* A JSON object with only the keys id and title
JTaskMin(id, title) ==
    [t |-> "dict", shape |-> "task_min", id |-> id, title |-> title]

\* A completion record as a JSON object
JRecDict(rec) ==
    [t |-> "dict", shape |-> "record", id |-> rec.id, title |-> rec.title,
     completed_at |-> rec.completed_at]

\* A JSON object with neither a title nor the keys of a TodoTask
JDictOther == [t |-> "dict", shape |-> "other"]

FileAbsent == [k |-> "absent"]

\* The file exists and json.loads (or the read) fails
FileCorrupt == [k |-> "corrupt"]

FileJson(v) == [k |-> "json", v |-> v]

\* Python truthiness of a JSON value (raw.get(key) of a missing key is None)
Truthy(v) ==
    CASE v.t = "missing" -> FALSE
      [] v.t = "null" -> FALSE
      [] v.t = "int" -> v.n # 0
      [] v.t = "str" -> v.s # <<>>
      [] v.t = "list" -> v.items # <<>>
      [] v.t = "dict" -> ~("empty" \in DOMAIN v /\ v.empty)
      [] OTHER -> TRUE

\* The integer literals int(str) is modelled on.
IntLiterals == ("0" :> 0) @@ ("1" :> 1) @@ ("5" :> 5) @@ ("51" :> 51)

\* str(v)
StrOf(v) ==
    CASE v.t = "str" -> v.s
      [] v.t = "int" -> <<ToString(v.n)>>
      [] v.t = "null" -> <<"None">>
      [] OTHER -> <<"<repr>">>

\* int(v) of a truthy JSON value
IntOf(v) ==
    CASE v.t = "int" -> [ok |-> TRUE, n |-> v.n]
      [] v.t = "str" ->
            LET core == Strip(v.s) IN
            IF Len(core) = 1 /\ core[1] \in DOMAIN IntLiterals
            THEN [ok |-> TRUE, n |-> IntLiterals[core[1]]]
            ELSE [ok |-> FALSE, exc |-> "ValueError"]
      [] OTHER -> [ok |-> FALSE, exc |-> "TypeError"]

\* ---------------------------------------------------------------- TodoTask

TodoTask(id, title, created_at) ==
    [id |-> id, title |-> title, created_at |-> created_at, done |-> FALSE]

\* ------------------------------------------------------------- OrderedDict

HasKey(d, k) == \E i \in 1..Len(d) : d[i].id = k

IndexOf(d, k) == CHOOSE i \in 1..Len(d) : d[i].id = k

\* d[k] = v: a new key goes last, an existing key keeps its place
DictSet(d, k, v) ==
    IF HasKey(d, k) THEN [d EXCEPT ![IndexOf(d, k)] = v] ELSE Append(d, v)

\* d without key k
DictDel(d, k) == SelectSeq(d, LAMBDA x : x.id # k)

\* OrderedDict((task.id, task) for task in items)
RECURSIVE DictFrom(_)
DictFrom(items) ==
    IF items = <<>> THEN <<>>
    ELSE LET init == DictFrom(SubSeq(items, 1, Len(items) - 1))
             last == items[Len(items)]
         IN DictSet(init, last.id, last)

\* ---------------------------------------------------------------- TodoStore

\* The values uuid4().hex[:8] takes in the model.
IdPool == << <<"0a1b2c3d">>, <<"4e5f6a7b">>, <<"deadbeef">>, <<"00c0ffee">> >>

Ids == {IdPool[i] : i \in 1..Min(NumIds, Len(IdPool))}

\* The clock values an operation starting at clock value c can read.
Clock(c) == c..Min(c + 1, MaxClock)

initial_tasks(c) ==
    << TodoTask(<<"welcome">>, <<"Welcome to your orange todo list">>, IsoZ(c)),
       TodoTask(<<"explore">>, <<"Add a new task with the add task tool">>, IsoZ(c)),
       TodoTask(<<"clean-up">>, <<"Remove a task using the remove task tool">>, IsoZ(c)) >>

\* TodoTask(**item) succeeds
IsTaskItem(item) == item.t = "dict" /\ item.shape \in {"task", "task_min"}

\* TodoTask(**item) at clock value c
TaskOfItem(item, c) ==
    IF item.shape = "task"
    THEN [id |-> item.id, title |-> item.title,
          created_at |-> item.created_at, done |-> item.done]
    ELSE TodoTask(item.id, item.title, IsoZ(c))

\* isinstance(item, dict) and "title" in item and "completed_at" in item
IsLogItem(item) == item.t = "dict" /\ item.shape = "record"

RecOfItem(item) ==
    [id |-> item.id, title |-> item.title, completed_at |-> item.completed_at]

\* [asdict(task) for task in ts]
TaskDicts(ts) == [i \in 1..Len(ts) |-> JTaskDict(ts[i])]

\* The completion records recs as JSON objects
RecDicts(recs) == [i \in 1..Len(recs) |-> JRecDict(recs[i])]

\* The completion records the JSON objects items stand for
RecsOfItems(items) == [i \in 1..Len(items) |-> RecOfItem(items[i])]

\* Lines 79-93: the tasks _load_state leaves in self._tasks
LoadTasks(raw, c) ==
    LET loaded ==
            IF raw.tasks.t = "list"
            THEN LET items == SelectSeq(raw.tasks.items, IsTaskItem)
                     ts == [i \in 1..Len(items) |-> TaskOfItem(items[i], c)]
                 IN IF ts # <<>> THEN DictFrom(ts) ELSE <<>>
            ELSE <<>>
    IN IF loaded = <<>> THEN initial_tasks(c) ELSE loaded

\* Lines 96-104: the completion log _load_state leaves in self._completed_log
LoadLog(raw) ==
    IF raw.completedTasks.t = "list"
    THEN LastN(RecsOfItems(SelectSeq(raw.completedTasks.items, IsLogItem)),
               LogCap)
    ELSE <<>>

\* Lines 105-106
LoadLast(raw) ==
    IF Truthy(raw.lastCompletedAt) THEN Some(StrOf(raw.lastCompletedAt)) ELSE None

\* Line 95: int(raw.get("completedCount", 0) or 0)
LoadCount(raw) ==
    IF Truthy(raw.completedCount) THEN IntOf(raw.completedCount)
    ELSE [ok |-> TRUE, n |-> 0]

\* Lines 71-77: the parsed file, {} when it is absent or unreadable
RawOf(d) == IF d.k = "json" THEN d.v ELSE JObj(JMissing, JMissing, JMissing, JMissing)

\* TodoStore._load_state up to line 106, the file holding d, at clock value c
load_state(d, c) ==
    LET raw == RawOf(d) IN
    IF raw.t # "dict" THEN [ok |-> FALSE, exc |-> "AttributeError"]
    ELSE LET cnt == LoadCount(raw) IN
         IF ~cnt.ok THEN [ok |-> FALSE, exc |-> cnt.exc]
         ELSE [ok |-> TRUE,
               tasks |-> LoadTasks(raw, c),
               completed_total |-> cnt.n,
               completed_log |-> LoadLog(raw),
               last_completed_at |-> LoadLast(raw)]

\* TodoStore._serialize_state (and json.dumps) of the store state S
serialize_state(S) ==
    JObj(JList(TaskDicts(S.tasks)),
         JInt(S.completed_total),
         IF S.last_completed_at.t = "None" THEN JNull ELSE JStr(S.last_completed_at.s),
         JList(RecDicts(S.completed_log)))

\* How Path.write_text can end: written; OSError before the file is touched;
\* OSError after it was truncated.
WriteOutcomes == {"ok", "fail", "partial"}

\* Path.write_text(payload) on a file holding d, OSError swallowed
\* (_persist_sync, _persist_unlocked)
WriteText(d, payload, wr) ==
    CASE wr = "ok" -> FileJson(payload)
      [] wr = "fail" -> d
      [] OTHER -> FileCorrupt

\* A variant of persist_unlocked that lets the OSError of the write through
persist_unlocked_uncaught(d, payload, wr) ==
    [disk |-> WriteText(d, payload, wr),
     exc |-> IF wr = "ok" THEN "none" ELSE "OSError"]

\* TodoStore._persist_unlocked: the file after the write of payload and the
\* exception that leaves the method (`except OSError: pass`, lines 133-134)
persist_unlocked(d, payload, wr) ==
    [disk |-> WriteText(d, payload, wr), exc |-> "none"]

\* The store state as a record
Store(ts, ct, cl, lca) ==
    [tasks |-> ts, completed_total |-> ct, completed_log |-> cl,
     last_completed_at |-> lca]

CurrentStore == Store(tasks, completed_total, completed_log, last_completed_at)

\* TodoStore.__init__ (TODO_STORE = TodoStore() at import): the process state
\* after it, the file holding d, at clock value c; wr is the outcome of the
\* write of line 109
Boot(d, c, wr) ==
    LET L == load_state(d, c) IN
    IF ~L.ok
    THEN [proc |-> "crashed", store |-> Store(<<>>, 0, <<>>, None), disk |-> d,
          exc |-> L.exc]
    ELSE LET S == Store(L.tasks, L.completed_total, L.completed_log,
                        L.last_completed_at)
         IN [proc |-> "running", store |-> S,
             disk |-> IF d.k = "absent" THEN WriteText(d, serialize_state(S), wr)
                      ELSE d,
             exc |-> "none"]

\* A variant of stats_unlocked that counts the completions from the log
stats_unlocked_bylog(S) ==
    LET active == Len(S.tasks) IN
    [total |-> active + Len(S.completed_log),
     active |-> active,
     completed |-> S.completed_total,
     lastCompletedAt |-> S.last_completed_at]

\* TodoStore._stats_unlocked on the store state S
stats_unlocked(S) ==
    LET active == Len(S.tasks) IN
    [total |-> active + S.completed_total,
     active |-> active,
     completed |-> S.completed_total,
     lastCompletedAt |-> S.last_completed_at]

\* A variant of AppendCapped that keeps the first LogCap records
AppendCappedHead(log, record) ==
    LET l == Append(log, record) IN
    IF Len(l) > LogCap THEN SubSeq(l, 1, LogCap) ELSE l

\* Lines 173-175: append, then keep the last LogCap records
AppendCapped(log, record) ==
    LET l == Append(log, record) IN
    IF Len(l) > LogCap THEN LastN(l, LogCap) ELSE l

\* TodoStore.snapshot on the store state S
snapshot(S) ==
    [tasks |-> S.tasks, stats |-> stats_unlocked(S),
     completedTasks |-> S.completed_log]

\* A variant of add_task that stores the title as given
add_task_nostrip(S, d, title, id, c, wr) ==
    LET new_task == TodoTask(id, title, IsoZ(c))
        S2 == [S EXCEPT !.tasks = DictSet(S.tasks, new_task.id, new_task)]
    IN [store |-> S2,
        disk |-> persist_unlocked(d, serialize_state(S2), wr).disk,
        exc |-> persist_unlocked(d, serialize_state(S2), wr).exc,
        found |-> TRUE,
        value |-> new_task]

\* TodoStore.add_task(title) on the store state S and the file content d; id is
\* what uuid4().hex[:8] gives, c the clock value, wr the outcome of the write
add_task(S, d, title, id, c, wr) ==
    LET new_task == TodoTask(id, Strip(title), IsoZ(c))
        S2 == [S EXCEPT !.tasks = DictSet(S.tasks, new_task.id, new_task)]
    IN [store |-> S2,
        disk |-> persist_unlocked(d, serialize_state(S2), wr).disk,
        exc |-> persist_unlocked(d, serialize_state(S2), wr).exc,
        found |-> TRUE,
        value |-> new_task]

\* A variant of remove_task that leaves the completed count as it was
remove_task_nocount(S, d, task_id, c, wr) ==
    IF ~HasKey(S.tasks, task_id)
    THEN [store |-> S, disk |-> d, exc |-> "none", found |-> FALSE, value |-> None]
    ELSE LET task == S.tasks[IndexOf(S.tasks, task_id)]
             completed_at == IsoZ(c)
             record == [id |-> task.id, title |-> task.title,
                        completed_at |-> completed_at]
             S2 == Store(DictDel(S.tasks, task_id),
                         S.completed_total,
                         AppendCapped(S.completed_log, record),
                         Some(completed_at))
         IN [store |-> S2,
             disk |-> persist_unlocked(d, serialize_state(S2), wr).disk,
             exc |-> persist_unlocked(d, serialize_state(S2), wr).exc,
             found |-> TRUE,
             value |-> task]

\* TodoStore.remove_task(task_id); found = FALSE stands for the result None
remove_task(S, d, task_id, c, wr) ==
    IF ~HasKey(S.tasks, task_id)
    THEN [store |-> S, disk |-> d, exc |-> "none", found |-> FALSE, value |-> None]
    ELSE LET task == S.tasks[IndexOf(S.tasks, task_id)]
             completed_at == IsoZ(c)
             record == [id |-> task.id, title |-> task.title,
                        completed_at |-> completed_at]
             S2 == Store(DictDel(S.tasks, task_id),
                         S.completed_total + 1,
                         AppendCapped(S.completed_log, record),
                         Some(completed_at))
         IN [store |-> S2,
             disk |-> persist_unlocked(d, serialize_state(S2), wr).disk,
             exc |-> persist_unlocked(d, serialize_state(S2), wr).exc,
             found |-> TRUE,
             value |-> task]

\* ------------------------------------------------------------ AssetRegistry

\* A path string of a manifest: lead says whether it starts with "/", dir is
\* the directory part and name the file name split at its dots, so
\* "/static/js/main.abc123.js" is Path(TRUE, "static/js/", <<"main", "abc123", "js">>).
Path(lead, dir, name) == [lead |-> lead, dir |-> dir, name |-> name]

\* item.endswith("." + ext)
EndsWith(path, ext) == Len(path.name) >= 2 /\ path.name[Len(path.name)] = ext

\* path.lstrip("/")
LStripSlash(path) == [path EXCEPT !.lead = FALSE]

\* Path(js_rel).stem.split(".")[-1]
VersionToken(path) == path.name[Len(path.name) - 1]

\* A manifest object; empty says it has no key at all.
MDict(entrypoints) ==
    [t |-> "dict", empty |-> FALSE, entrypoints |-> entrypoints]

MEmptyDict == [t |-> "dict", empty |-> TRUE, entrypoints |-> JMissing]

\* next((item for item in items if item.endswith("." + ext)), None): the scan
\* stops at the first match and raises at an item that is no str before it
RECURSIVE FirstEndingWith(_, _)
FirstEndingWith(items, ext) ==
    IF items = <<>> THEN [ok |-> TRUE, found |-> FALSE]
    ELSE IF Head(items).t # "str" THEN [ok |-> FALSE, exc |-> "AttributeError"]
    ELSE IF EndsWith(Head(items).s, ext)
         THEN [ok |-> TRUE, found |-> TRUE, path |-> Head(items).s]
         ELSE FirstEndingWith(Tail(items), ext)

\* _derive_asset_paths(manifest)
derive_asset_paths(manifest) ==
    IF manifest.t # "dict" THEN [ok |-> FALSE, exc |-> "AttributeError"]
    ELSE LET e == manifest.entrypoints
             entrypoints == IF e.t = "missing" THEN JList(<<>>) ELSE e
         IN IF entrypoints.t # "list" THEN [ok |-> FALSE, exc |-> "TypeError"]
            ELSE LET css_entry == FirstEndingWith(entrypoints.items, "css")
                     js_entry == FirstEndingWith(entrypoints.items, "js")
                 IN IF ~css_entry.ok THEN [ok |-> FALSE, exc |-> css_entry.exc]
                    ELSE IF ~js_entry.ok THEN [ok |-> FALSE, exc |-> js_entry.exc]
                    ELSE IF ~css_entry.found \/ ~js_entry.found
                         THEN [ok |-> FALSE, exc |-> "ValueError"]
                    ELSE [ok |-> TRUE,
                          css_rel |-> LStripSlash(css_entry.path),
                          js_rel |-> LStripSlash(js_entry.path),
                          version |-> VersionToken(LStripSlash(js_entry.path))]

\* _fetch_remote_manifest(url): the response's JSON, None on any exception
fetch_remote_manifest(remote) ==
    IF remote.k = "json" THEN remote.v ELSE JNull

\* _read_local_manifest(): the local file's JSON, or the exception it raises
read_local_manifest(local) ==
    CASE local.k = "absent" -> [ok |-> FALSE, exc |-> "FileNotFoundError"]
      [] local.k = "corrupt" -> [ok |-> FALSE, exc |-> "JSONDecodeError"]
      [] OTHER -> [ok |-> TRUE, v |-> local.v]

\* SERVER_URL.startswith("http")
StartsWithHttp(url) == url.scheme \in {"http", "https"}

DefaultServerUrl ==
    [scheme |-> "https", rest |-> "cdn.jsdelivr.net/gh/Haniehz1/orange_todo_app@main/docs"]

DefaultConfig == [use_deployed |-> TRUE, server_url |-> DefaultServerUrl]

\* AssetRegistry.__init__: the placeholder descriptor
Placeholder ==
    [identifier |-> "todo-dashboard",
     title |-> "Todo Dashboard",
     template_uri |-> <<"ui://widget/todo-dashboard-", "initial", ".html">>,
     invoking |-> "Loading your tasks",
     invoked |-> "Loading your tasks...",
     html |-> [assets |-> FALSE]]

\* A variant of build_snapshot whose HTML refers to the paths as the local
\* server mounts them
build_snapshot_local(manifest, server_url) ==
    [identifier |-> "todo-dashboard",
     title |-> "Todo Dashboard",
     template_uri |-> <<"ui://widget/todo-dashboard-", manifest.version, ".html">>,
     invoking |-> "Checking your tasks",
     invoked |-> "Updating your tasks...",
     html |-> [assets |-> TRUE,
               css_href |-> [base |-> [scheme |-> "", rest |-> ""],
                             rel |-> manifest.css_rel],
               js_src |-> [base |-> [scheme |-> "", rest |-> ""],
                           rel |-> manifest.js_rel]]]

\* AssetRegistry._build_snapshot(manifest) with SERVER_URL = server_url
build_snapshot(manifest, server_url) ==
    [identifier |-> "todo-dashboard",
     title |-> "Todo Dashboard",
     template_uri |-> <<"ui://widget/todo-dashboard-", manifest.version, ".html">>,
     invoking |-> "Checking your tasks",
     invoked |-> "Updating your tasks...",
     html |-> [assets |-> TRUE,
               css_href |-> [base |-> server_url, rel |-> manifest.css_rel],
               js_src |-> [base |-> server_url, rel |-> manifest.js_rel]]]

\* Lines 319-325: the local step of refresh on the cached descriptor W
refresh_local(W, cfg, local) ==
    LET m == read_local_manifest(local)
        paths == IF m.ok THEN derive_asset_paths(m.v) ELSE m
        W2 == IF paths.ok THEN build_snapshot(paths, cfg.server_url) ELSE W
    IN [raised |-> FALSE, exc |-> "none", widget |-> W2, value |-> W2,
        step |-> IF paths.ok THEN "local" ELSE "cache"]

\* AssetRegistry.refresh() on the cached descriptor W; remote is what the HTTP
\* request meets, local what the build directory holds
refresh(W, cfg, remote, local) ==
    IF cfg.use_deployed /\ StartsWithHttp(cfg.server_url)
    THEN LET manifest == fetch_remote_manifest(remote) IN
         IF Truthy(manifest)
         THEN LET paths == derive_asset_paths(manifest) IN
              IF paths.ok
              THEN LET W2 == build_snapshot(paths, cfg.server_url) IN
                   [raised |-> FALSE, exc |-> "none", widget |-> W2,
                    value |-> W2, step |-> "remote"]
              ELSE [raised |-> TRUE, exc |-> paths.exc, widget |-> W,
                    value |-> None, step |-> "remote"]
         ELSE refresh_local(W, cfg, local)
    ELSE refresh_local(W, cfg, local)

\* --------------------------------------------------------------- dispatcher

\* The module-level names of main.py that are bound to a string, with their
\* values (lines 249-252). No statement of the module binds GET_TASKS_TOOL,
\* ADD_TASK_TOOL or REMOVE_TASK_TOOL.
ModuleGlobals ==
    ("WIDGET_IDENTIFIER" :> "todo-dashboard")
    @@ ("WIDGET_TITLE" :> "Todo Dashboard")
    @@ ("MIME_TYPE" :> "text/html+skybridge")

\* The evaluation of a global name in a function body
GlobalLookup(name) ==
    IF name \in DOMAIN ModuleGlobals
    THEN [ok |-> TRUE, value |-> ModuleGlobals[name]]
    ELSE [ok |-> FALSE, exc |-> "NameError", name |-> name]

\* Line 444: the set display {GET_TASKS_TOOL, ADD_TASK_TOOL, REMOVE_TASK_TOOL}
ToolNameSet ==
    LET g == GlobalLookup("GET_TASKS_TOOL")
        a == GlobalLookup("ADD_TASK_TOOL")
        r == GlobalLookup("REMOVE_TASK_TOOL")
    IN IF ~g.ok THEN g
       ELSE IF ~a.ok THEN a
       ELSE IF ~r.ok THEN r
       ELSE [ok |-> TRUE, GET_TASKS_TOOL |-> g.value, ADD_TASK_TOOL |-> a.value,
             REMOVE_TASK_TOOL |-> r.value]

\* _tool_meta(widget, read_only)
tool_meta(w, read_only) ==
    [outputTemplate |-> w.template_uri,
     invoking |-> w.invoking,
     invoked |-> w.invoked,
     widgetAccessible |-> TRUE,
     resultCanProduceWidget |-> TRUE,
     annotations |-> [destructiveHint |-> FALSE, openWorldHint |-> FALSE,
                      readOnlyHint |-> read_only]]

\* args.get(key, ""): args is a record of JSON values, JMissing for no key
ArgStr(v) == IF v.t = "missing" THEN <<>> ELSE StrOf(v)

Raise(exc) == [kind |-> "raise", exc |-> exc]

\* types.CallToolResult without structured content
TextResult(text, is_error, meta) ==
    [kind |-> "result", isError |-> is_error, text |-> text,
     structured |-> FALSE, has_meta |-> meta.t # "None", meta |-> meta]

\* types.CallToolResult with structured content
StructuredResult(text, is_error, content, meta) ==
    [kind |-> "result", isError |-> is_error, text |-> text,
     structured |-> TRUE, structuredContent |-> content,
     has_meta |-> TRUE, meta |-> meta]

\* What a run of the handler leaves: the store, the file, the cached
\* descriptor, and the result it returns (or the exception it raises)
CallOutcome(S, d, W, result) ==
    [store |-> S, disk |-> d, widget |-> W, result |-> result]

\* Lines 458-470: the _meta of a result for the descriptor w
call_meta(w, read_only) ==
    [t |-> "meta",
     tool |-> tool_meta(w, read_only),
     widget_resource |-> [uri |-> w.template_uri,
                          mimeType |-> ModuleGlobals["MIME_TYPE"],
                          text |-> w.html, title |-> w.title]]

\* Lines 474-493: the get-tasks result for the snapshot snap
get_tasks_result(snap, meta) ==
    StructuredResult([msg |-> "You currently have", active |-> snap.stats.active],
                     FALSE,
                     [tasks |-> snap.tasks, stats |-> snap.stats,
                      completedTasks |-> snap.completedTasks],
                     meta)

\* Lines 510-529: the add-task result for the task new_task and the snapshot
added_result(new_task, snap, meta) ==
    StructuredResult([msg |-> "Added task", title |-> new_task.title,
                      id |-> new_task.id, active |-> snap.stats.active],
                     FALSE,
                     [tasks |-> snap.tasks, stats |-> snap.stats,
                      completedTasks |-> snap.completedTasks,
                      added |-> new_task],
                     meta)

\* Lines 508-509: r is what TODO_STORE.add_task(title) did
after_add(r, W, meta) ==
    IF r.exc # "none" THEN CallOutcome(r.store, r.disk, W, Raise(r.exc))
    ELSE CallOutcome(r.store, r.disk, W,
                     added_result(r.value, snapshot(r.store), meta))

\* Lines 495-529: the add-task branch
add_task_branch(S, d, W, meta, args, inp) ==
    IF Strip(ArgStr(args.title)) = <<>>
    THEN CallOutcome(S, d, W,
                     TextResult([msg |-> "Please provide a task title."], TRUE, meta))
    ELSE after_add(add_task(S, d, Strip(ArgStr(args.title)), inp.id, inp.c, inp.wr),
                   W, meta)

\* Lines 547-588: the remove-task results; found is removed is not None
removed_result(found, removed, task_id, snap, meta) ==
    IF ~found
    THEN StructuredResult([msg |-> "No task with id was found.", id |-> task_id],
                          TRUE,
                          [tasks |-> snap.tasks, stats |-> snap.stats,
                           completedTasks |-> snap.completedTasks],
                          meta)
    ELSE StructuredResult([msg |-> "Completed task", title |-> removed.title,
                           remaining |-> snap.stats.active,
                           completed |-> snap.stats.completed],
                          FALSE,
                          [tasks |-> snap.tasks, stats |-> snap.stats,
                           completedTasks |-> snap.completedTasks,
                           removed |-> removed],
                          meta)

\* Lines 546-567: r is what TODO_STORE.remove_task(task_id) did
after_remove(r, task_id, W, meta) ==
    IF r.exc # "none" THEN CallOutcome(r.store, r.disk, W, Raise(r.exc))
    ELSE CallOutcome(r.store, r.disk, W,
                     removed_result(r.found, r.value, task_id, snapshot(r.store),
                                    meta))

\* Lines 531-588: the remove-task branch
remove_task_branch(S, d, W, meta, args, inp) ==
    IF Strip(ArgStr(args.id)) = <<>>
    THEN CallOutcome(S, d, W,
                     TextResult([msg |-> "Please provide the id of the task to remove."],
                                TRUE, meta))
    ELSE after_remove(remove_task(S, d, Strip(ArgStr(args.id)), inp.c, inp.wr),
                      Strip(ArgStr(args.id)), W, meta)

\* Lines 472-588: the three branches, W the cached descriptor after the refresh
tool_branches(S, d, W, meta, names, tool_name, args, inp) ==
    IF tool_name = names.GET_TASKS_TOOL
    THEN CallOutcome(S, d, W, get_tasks_result(snapshot(S), meta))
    ELSE IF tool_name = names.ADD_TASK_TOOL
         THEN add_task_branch(S, d, W, meta, args, inp)
         ELSE remove_task_branch(S, d, W, meta, args, inp)

\* Lines 457-470: rf is what ASSET_REGISTRY.refresh() did
after_refresh(rf, S, d, names, tool_name, args, inp) ==
    IF rf.raised
    THEN CallOutcome(S, d, rf.widget, Raise(rf.exc))
    ELSE tool_branches(S, d, rf.widget,
                       call_meta(rf.value, tool_name = names.GET_TASKS_TOOL),
                       names, tool_name, args, inp)

\* Lines 457-588 of _call_tool_request: the handler once the tool name is known
\* to be one of the three; names is the value of ToolNameSet, inp the outcomes
\* the handler meets (remote, local: the manifests; id, c, wr: as for the store)
call_tool_body(S, d, W, cfg, names, tool_name, args, inp) ==
    after_refresh(refresh(W, cfg, inp.remote, inp.local),
                  S, d, names, tool_name, args, inp)

\* Lines 440-456 of _call_tool_request: what the handler does before it needs
\* anything but the request; "continue" stands for reaching line 457
call_tool_head(tool_name) ==
    LET names == ToolNameSet IN
    IF ~names.ok THEN Raise(names.exc)
    ELSE IF tool_name \notin {names.GET_TASKS_TOOL, names.ADD_TASK_TOOL,
                              names.REMOVE_TASK_TOOL}
         THEN TextResult([msg |-> "Unknown tool", name |-> tool_name], TRUE, None)
         ELSE [kind |-> "continue"]

\* Lines 420-437 of _handle_read_resource: rf is what ASSET_REGISTRY.refresh()
\* did, uri is str(req.params.uri)
read_resource_result(rf, uri) ==
    IF rf.raised THEN Raise(rf.exc)
    ELSE IF uri # rf.value.template_uri
         THEN [kind |-> "result", contents |-> <<>>,
               meta |-> [t |-> "meta",
                         error |-> [msg |-> "Unknown resource", uri |-> uri]]]
         ELSE [kind |-> "result",
               contents |-> << [uri |-> rf.value.template_uri,
                                mimeType |-> ModuleGlobals["MIME_TYPE"],
                                text |-> rf.value.html,
                                meta |-> tool_meta(rf.value, FALSE)] >>,
               meta |-> None]

\* ------------------------------------------------------------ the event loop

\* The coroutines of one behaviour.
Coros == 1..NumCoros

\* A coroutine that no request has started yet
NewCoro == [pc |-> "new"]

\* asyncio.Lock() (line 60): not locked, nobody waiting
FreeLock == [locked |-> FALSE, waiters |-> <<>>]

\* A variant of LockAcquire for a store whose methods take no lock
LockAcquireNone(L, p) == [got |-> TRUE, lock |-> L]

\* `async with self._lock` entered by coroutine p (lines 146, 155, 161): the
\* lock is taken at once when it is free and nobody waits for it; otherwise p
\* joins the waiters and is suspended
LockAcquire(L, p) ==
    IF ~L.locked /\ L.waiters = <<>>
    THEN [got |-> TRUE, lock |-> [L EXCEPT !.locked = TRUE]]
    ELSE [got |-> FALSE, lock |-> [L EXCEPT !.waiters = Append(@, p)]]

\* The `async with` block is left: the lock is released and its first waiter
\* is woken
LockRelease(L) == [L EXCEPT !.locked = FALSE]

\* The waiter p has been woken: the lock is free and p waited longest
LockWoken(L, p) == ~L.locked /\ L.waiters # <<>> /\ Head(L.waiters) = p

\* The woken waiter takes the lock
LockHandOver(L) == [locked |-> TRUE, waiters |-> Tail(L.waiters)]

\* Line 156: the assignment of add_task under the lock
add_locked(S, new_task) ==
    [S EXCEPT !.tasks = DictSet(S.tasks, new_task.id, new_task)]

\* A variant of remove_locked that looks the task up and leaves it in the map
remove_locked_keep(S, task_id, c) ==
    IF ~HasKey(S.tasks, task_id)
    THEN [store |-> S, found |-> FALSE, value |-> None]
    ELSE LET task == S.tasks[IndexOf(S.tasks, task_id)]
             record == [id |-> task.id, title |-> task.title,
                        completed_at |-> IsoZ(c)]
         IN [store |-> Store(S.tasks,
                             S.completed_total + 1,
                             AppendCapped(S.completed_log, record),
                             Some(IsoZ(c))),
             found |-> TRUE,
             value |-> task]

\* Lines 162-175: remove_task under the lock up to the write, at clock value c
remove_locked(S, task_id, c) ==
    IF ~HasKey(S.tasks, task_id)
    THEN [store |-> S, found |-> FALSE, value |-> None]
    ELSE LET task == S.tasks[IndexOf(S.tasks, task_id)]
             record == [id |-> task.id, title |-> task.title,
                        completed_at |-> IsoZ(c)]
         IN [store |-> Store(DictDel(S.tasks, task_id),
                             S.completed_total + 1,
                             AppendCapped(S.completed_log, record),
                             Some(IsoZ(c))),
             found |-> TRUE,
             value |-> task]

\* The coroutine co has returned value
Done(co, found, value) ==
    [co EXCEPT !.pc = "done"] @@ [found |-> found, value |-> value]

\* The coroutine co awaits asyncio.to_thread(write_text, payload) (line 130),
\* payload being json.dumps of the state S; value is what it will return
Writing(co, S, value) ==
    [co EXCEPT !.pc = "writing"]
        @@ [payload |-> serialize_state(S), found |-> TRUE, value |-> value]

\* The body of the `async with self._lock` block of the method co runs, on the
\* store state S at clock value c, up to its first await or its return:
\* the store state it leaves and where the coroutine stands
RunLocked(co, S, c) ==
    CASE co.op = "snapshot" ->
            [store |-> S, co |-> Done(co, TRUE, snapshot(S))]
      [] co.op = "add_task" ->
            [store |-> add_locked(S, co.new_task),
             co |-> Writing(co, add_locked(S, co.new_task), co.new_task)]
      [] OTHER ->
            LET r == remove_locked(S, co.task_id, c) IN
            [store |-> r.store,
             co |-> IF r.found THEN Writing(co, r.store, r.value)
                    ELSE Done(co, FALSE, None)]

\* The lock once the block has run up to where co stands
LockAfter(L, co) == IF co.pc = "writing" THEN L ELSE LockRelease(L)

\* ------------------------------------------------------------- start states

SampleTask(i) == TodoTask(IdPool[i], <<"Buy milk">>, IsoZ(0))

OldRec(i) ==
    [id |-> <<"old" \o ToString(i)>>, title |-> <<"Done " \o ToString(i)>>,
     completed_at |-> IsoZ(0)]

OldLog(n) == [i \in 1..n |-> OldRec(i)]

\* The contents todo_state.json can have when the process starts.
SampleFiles ==
    << FileAbsent,
       FileCorrupt,
       \* a state file the program wrote: one task, one completion
       FileJson(serialize_state(Store(<<SampleTask(1)>>, 1, OldLog(1),
                                      Some(IsoZ(0))))),
       \* a log one record short of the cap
       FileJson(serialize_state(Store(<<SampleTask(1), SampleTask(2)>>,
                                      LogCap - 1, OldLog(LogCap - 1),
                                      Some(IsoZ(0))))),
       \* a log longer than the cap (written by hand)
       FileJson(JObj(JList(<<JTaskDict(SampleTask(2))>>), JStr(<<"51">>),
                     JStr(IsoZ(0)), JList(RecDicts(OldLog(LogCap + 2))))),
       \* a state file the program wrote after the last task was removed
       FileJson(serialize_state(Store(<<>>, 5, OldLog(5), Some(IsoZ(0))))),
       \* valid JSON that is not an object
       FileJson(JList(<<>>)),
       \* fields of the wrong type, items that are no tasks, a duplicate id
       FileJson(JObj(JList(<<JInt(1), JTaskMin(IdPool[1], <<"a">>), JDictOther,
                             JTaskDict(SampleTask(1))>>),
                     JNull, JInt(5),
                     JList(<<JDictOther, JRecDict(OldRec(1)), JNull>>))),
       \* a completed count that is no number
       FileJson(JObj(JMissing, JStr(<<"abc">>), JMissing, JMissing)),
       \* an empty object
       FileJson(JObj(JMissing, JMissing, JMissing, JMissing)) >>

\* The titles the callers pass.
RawTitles == {<<>>, <<" ">>, <<"Buy milk">>, <<" ", "Buy milk", "\n">>}

\* The ids the callers ask to remove.
RemoveIds == {tasks[i].id : i \in 1..Len(tasks)} \cup {<<"nonexistent">>}

CssPath == Path(TRUE, "static/css/", <<"main", "f855e6bc", "css">>)

JsPath(hash) == Path(TRUE, "static/js/", <<"main", hash, "js">>)

\* An asset manifest whose entrypoints are one CSS and one JS file
ValidManifest(hash) == MDict(JList(<<JStr(CssPath), JStr(JsPath(hash))>>))

\* What the GET of <SERVER_URL>/asset-manifest.json can meet.
RemoteOutcomes ==
    << [k |-> "error", why |-> "network"],
       [k |-> "error", why |-> "http_status"],
       [k |-> "error", why |-> "bad_json"],
       [k |-> "json", v |-> ValidManifest("abc123")],
       [k |-> "json", v |-> ValidManifest("def456")],
       \* no CSS entrypoint
       [k |-> "json", v |-> MDict(JList(<<JStr(JsPath("abc123"))>>))],
       \* no JS entrypoint
       [k |-> "json", v |-> MDict(JList(<<JStr(CssPath)>>))],
       \* an object without the key entrypoints
       [k |-> "json", v |-> MDict(JMissing)],
       \* the empty object
       [k |-> "json", v |-> MEmptyDict],
       \* wrong shapes: a list, an entrypoint that is no string, entrypoints null
       [k |-> "json", v |-> JList(<<JInt(1)>>)],
       [k |-> "json", v |-> MDict(JList(<<JInt(1)>>))],
       [k |-> "json", v |-> MDict(JNull)] >>

\* What web/build/asset-manifest.json can hold.
LocalOutcomes ==
    << FileAbsent,
       FileCorrupt,
       FileJson(ValidManifest("10ca1789")),
       FileJson(MDict(JList(<<JStr(CssPath)>>))),
       FileJson(JList(<<JInt(1)>>)) >>

\* The environments the process can be started in.
SampleConfigs ==
    << DefaultConfig,
       [use_deployed |-> FALSE, server_url |-> DefaultServerUrl],
       [use_deployed |-> TRUE, server_url |-> [scheme |-> "", rest |-> "/assets"]] >>

\* The tool names and arguments the clients send.
RequestedTools == {"get-tasks", "add-task", "remove-task", "no-such-tool"}

RequestedArgs ==
    {[title |-> JMissing, id |-> JMissing], [title |-> JNull, id |-> JNull]}
    \cup {[title |-> JStr(x), id |-> JMissing] : x \in RawTitles}
    \cup {[title |-> JMissing, id |-> JStr(x)] : x \in RemoveIds \cup {<<" ">>}}

\* The arguments a client sends with the tool tool_name: none, a null, or the
\* argument the tool's schema names
ArgsFor(tool_name) ==
    {a \in RequestedArgs :
        \/ a.title.t = "missing" /\ a.id.t = "missing"
        \/ tool_name = "add-task" /\ a.id.t = "missing"
        \/ tool_name = "remove-task" /\ a.title.t = "missing"
        \/ a.title.t = "null"}

\* ------------------------------------------------------------------ actions

Init ==
    \E i \in 1..Len(SampleFiles), wr \in WriteOutcomes :
        LET B == Boot(SampleFiles[i], 1, wr) IN
        /\ proc = B.proc
        /\ tasks = B.store.tasks
        /\ completed_total = B.store.completed_total
        /\ completed_log = B.store.completed_log
        /\ last_completed_at = B.store.last_completed_at
        /\ disk = B.disk
        /\ widget = Placeholder
        /\ config = DefaultConfig
        /\ now = 1
        /\ nops = 0
        /\ ret = [op |-> "import", exc |-> B.exc]
        /\ coros = [p \in Coros |-> NewCoro]
        /\ lock = FreeLock
        /\ loop = 0

\* What every operation needs: a live process and room in the run.
CanStep == proc = "running" /\ nops < MaxOps

SetStore(S) ==
    /\ tasks' = S.tasks
    /\ completed_total' = S.completed_total
    /\ completed_log' = S.completed_log
    /\ last_completed_at' = S.last_completed_at

\* A caller awaits TODO_STORE.snapshot()
StoreSnapshot ==
    /\ CanStep
    /\ ret' = [op |-> "snapshot", value |-> snapshot(CurrentStore)]
    /\ nops' = nops + 1
    /\ UNCHANGED <<proc, storeVars, disk, widget, config, now, asyncVars>>

\* A caller awaits TODO_STORE.add_task(title)
StoreAdd ==
    /\ CanStep
    /\ \E title \in RawTitles, id \in Ids, c \in Clock(now), wr \in WriteOutcomes :
          LET r == add_task(CurrentStore, disk, title, id, c, wr) IN
          /\ SetStore(r.store)
          /\ disk' = r.disk
          /\ now' = c
          /\ ret' = [op |-> "add_task", title |-> title, wr |-> wr,
                     exc |-> r.exc,
                     value |-> IF r.exc = "none" THEN r.value ELSE None]
    /\ nops' = nops + 1
    /\ UNCHANGED <<proc, widget, config, asyncVars>>

\* A caller awaits TODO_STORE.remove_task(task_id)
StoreRemove ==
    /\ CanStep
    /\ \E task_id \in RemoveIds, c \in Clock(now), wr \in WriteOutcomes :
          LET r == remove_task(CurrentStore, disk, task_id, c, wr) IN
          /\ SetStore(r.store)
          /\ disk' = r.disk
          /\ now' = c
          /\ ret' = [op |-> "remove_task", task_id |-> task_id, wr |-> wr,
                     exc |-> r.exc, found |-> r.found,
                     value |-> IF r.exc = "none" THEN r.value ELSE None]
    /\ nops' = nops + 1
    /\ UNCHANGED <<proc, widget, config, asyncVars>>

\* The process ends and is started again: the module is imported anew
Restart ==
    /\ CanStep
    /\ \E c \in Clock(now), wr \in WriteOutcomes :
          LET B == Boot(disk, c, wr) IN
          /\ proc' = B.proc
          /\ SetStore(B.store)
          /\ disk' = B.disk
          /\ now' = c
          /\ ret' = [op |-> "restart", exc |-> B.exc]
    /\ widget' = Placeholder
    /\ nops' = nops + 1
    /\ UNCHANGED <<config, asyncVars>>

\* The handler's run r becomes the state
ApplyCall(r, tool_name, args) ==
    /\ SetStore(r.store)
    /\ disk' = r.disk
    /\ widget' = r.widget
    /\ ret' = [op |-> "call_tool", tool_name |-> tool_name, args |-> args,
               result |-> r.result]

\* A call-tool request arrives: _call_tool_request(req)
CallTool ==
    /\ CanStep
    /\ \E tool_name \in RequestedTools : \E args \in ArgsFor(tool_name) :
          IF call_tool_head(tool_name).kind # "continue"
          THEN /\ ApplyCall(CallOutcome(CurrentStore, disk, widget,
                                        call_tool_head(tool_name)),
                            tool_name, args)
               /\ UNCHANGED now
          ELSE \E i \in 1..Len(RemoteOutcomes), j \in 1..Len(LocalOutcomes),
                  id \in Ids, c \in Clock(now), wr \in WriteOutcomes :
                  /\ ApplyCall(call_tool_body(CurrentStore, disk, widget, config,
                                              ToolNameSet, tool_name, args,
                                              [remote |-> RemoteOutcomes[i],
                                               local |-> LocalOutcomes[j],
                                               id |-> id, c |-> c, wr |-> wr]),
                               tool_name, args)
                  /\ now' = c
    /\ nops' = nops + 1
    /\ UNCHANGED <<proc, config, asyncVars>>

Next ==
    \/ StoreSnapshot
    \/ StoreAdd
    \/ StoreRemove
    \/ Restart
    \/ CallTool

Spec == Init /\ [][Next]_vars

\* ------------------------------------------------- the asset registry alone

InitAssets ==
    \E k \in 1..Len(SampleConfigs) :
        LET B == Boot(FileAbsent, 1, "ok") IN
        /\ proc = B.proc
        /\ tasks = B.store.tasks
        /\ completed_total = B.store.completed_total
        /\ completed_log = B.store.completed_log
        /\ last_completed_at = B.store.last_completed_at
        /\ disk = B.disk
        /\ widget = Placeholder
        /\ config = SampleConfigs[k]
        /\ now = 1
        /\ nops = 0
        /\ ret = [op |-> "import", exc |-> B.exc]
        /\ coros = [p \in Coros |-> NewCoro]
        /\ lock = FreeLock
        /\ loop = 0

\* A caller awaits ASSET_REGISTRY.refresh()
Refresh ==
    /\ CanStep
    /\ \E i \in 1..Len(RemoteOutcomes), j \in 1..Len(LocalOutcomes) :
          LET r == refresh(widget, config, RemoteOutcomes[i], LocalOutcomes[j]) IN
          /\ widget' = r.widget
          /\ ret' = [op |-> "refresh", remote |-> RemoteOutcomes[i],
                     local |-> LocalOutcomes[j], cached |-> widget,
                     raised |-> r.raised, exc |-> r.exc, value |-> r.value,
                     step |-> r.step]
    /\ nops' = nops + 1
    /\ UNCHANGED <<proc, storeVars, disk, config, now, asyncVars>>

\* The URIs the clients ask for: the template URI of the placeholder and of
\* the sample manifests, and a URI of no descriptor.
RequestedUris ==
    {<<"ui://widget/todo-dashboard-", v, ".html">> :
        v \in {"initial", "abc123", "def456", "10ca1789"}}
    \cup {<<"ui://widget/other.html">>}

\* A read-resource request arrives: _handle_read_resource(req)
ReadResource ==
    /\ CanStep
    /\ \E uri \in RequestedUris,
          i \in 1..Len(RemoteOutcomes), j \in 1..Len(LocalOutcomes) :
          LET r == refresh(widget, config, RemoteOutcomes[i], LocalOutcomes[j]) IN
          /\ widget' = r.widget
          /\ ret' = [op |-> "read_resource", uri |-> uri,
                     remote |-> RemoteOutcomes[i], local |-> LocalOutcomes[j],
                     cached |-> widget, refreshed |-> r.value,
                     result |-> read_resource_result(r, uri)]
    /\ nops' = nops + 1
    /\ UNCHANGED <<proc, storeVars, disk, config, now, asyncVars>>

NextAssets ==
    \/ Refresh
    \/ ReadResource

SpecAssets == InitAssets /\ [][NextAssets]_vars

\* --------------------------------------------- the store on the event loop

\* The remote and local manifests the coroutines meet: a network error, a
\* valid manifest, a manifest without CSS entrypoint; no local build, a valid one.
AsyncRemotes == {1, 4, 6}

AsyncLocals == {1, 3}

InitAsync ==
    \E i \in {1, 3}, k \in {1, 2} :
        LET B == Boot(SampleFiles[i], 1, "ok") IN
        /\ proc = B.proc
        /\ tasks = B.store.tasks
        /\ completed_total = B.store.completed_total
        /\ completed_log = B.store.completed_log
        /\ last_completed_at = B.store.last_completed_at
        /\ disk = B.disk
        /\ widget = Placeholder
        /\ config = SampleConfigs[k]
        /\ now = 1
        /\ nops = 0
        /\ ret = [op |-> "import", exc |-> B.exc]
        /\ coros = [p \in Coros |-> NewCoro]
        /\ lock = FreeLock
        /\ loop = 0

\* The loop's thread can run a coroutine: no synchronous call keeps it
LoopFree == proc = "running" /\ loop = 0

\* Coroutine p is the next one a request starts
NextToStart(p) ==
    coros[p].pc = "new" /\ \A q \in 1..(p - 1) : coros[q].pc # "new"

\* The coroutines that run remove_task
RemoveCoros ==
    {q \in Coros : coros[q].pc # "new" /\ coros[q].op = "remove_task"}

\* The calls of the store's methods, up to their `async with`, at clock
\* value c; add_task builds its task before it takes the lock (line 154)
StoreCalls(c) ==
    {[pc |-> "called", op |-> "snapshot", started |-> c]}
    \cup {[pc |-> "called", op |-> "add_task", started |-> c, title |-> title,
           new_task |-> TodoTask(id, Strip(title), IsoZ(c))] :
            title \in {<<"Buy milk">>}, id \in Ids}
    \cup {[pc |-> "called", op |-> "remove_task", started |-> c,
           task_id |-> task_id] :
            task_id \in {tasks[i].id : i \in 1..Len(tasks)}
                        \cup {coros[q].task_id : q \in RemoveCoros}
                        \cup {<<"nonexistent">>}}

\* Coroutine p, holding the lock, runs its block at clock value c
EnterLocked(p, co, L, c) ==
    LET r == RunLocked(co, CurrentStore, c) IN
    /\ SetStore(r.store)
    /\ coros' = [coros EXCEPT ![p] = r.co]
    /\ lock' = LockAfter(L, r.co)

\* A caller awaits snapshot(), add_task(title) or remove_task(task_id) in
\* coroutine p, which runs until it is suspended or returns
StoreCall(p) ==
    /\ LoopFree
    /\ NextToStart(p)
    /\ \E c \in Clock(now) : \E co \in StoreCalls(c) :
          /\ now' = c
          /\ IF LockAcquire(lock, p).got
             THEN EnterLocked(p, co @@ [waited |-> FALSE],
                              LockAcquire(lock, p).lock, c)
             ELSE /\ coros' = [coros EXCEPT
                                 ![p] = [co EXCEPT !.pc = "lock_wait"]
                                            @@ [waited |-> TRUE]]
                  /\ lock' = LockAcquire(lock, p).lock
                  /\ UNCHANGED storeVars
    /\ UNCHANGED <<proc, disk, widget, config, nops, ret, loop>>

\* The waiter p, woken by the release of the lock, runs on
StoreWake(p) ==
    /\ LoopFree
    /\ coros[p].pc = "lock_wait"
    /\ LockWoken(lock, p)
    /\ \E c \in Clock(now) :
          /\ now' = c
          /\ EnterLocked(p, coros[p], LockHandOver(lock), c)
    /\ UNCHANGED <<proc, disk, widget, config, nops, ret, loop>>

\* The thread's write_text ends (OSError swallowed, lines 133-134) and the
\* coroutine p runs on: it leaves the lock and returns
WriteDone(p) ==
    /\ LoopFree
    /\ coros[p].pc = "writing"
    /\ \E wr \in WriteOutcomes :
          /\ disk' = persist_unlocked(disk, coros[p].payload, wr).disk
          /\ coros' = [coros EXCEPT
                         ![p] = [@ EXCEPT !.pc = "done"]
                                    @@ [wr |-> wr,
                                        exc |-> persist_unlocked(disk, coros[p].payload,
                                                                 wr).exc]]
    /\ lock' = LockRelease(lock)
    /\ UNCHANGED <<proc, storeVars, widget, config, now, nops, ret, loop>>

\* What refresh() did, as the coroutine's record
Refreshed(r, cached) ==
    [pc |-> "done", op |-> "refresh", cached |-> cached, raised |-> r.raised,
     exc |-> r.exc, value |-> r.value, step |-> r.step]

\* A caller awaits ASSET_REGISTRY.refresh() in coroutine p: with remote assets
\* it reaches the synchronous httpx.get of line 223, which keeps the loop's
\* thread until the response or the timeout; without, it runs to its return
RefreshCall(p) ==
    /\ LoopFree
    /\ NextToStart(p)
    /\ IF config.use_deployed /\ StartsWithHttp(config.server_url)
       THEN /\ coros' = [coros EXCEPT ![p] = [pc |-> "fetching", op |-> "refresh"]]
            /\ loop' = p
            /\ UNCHANGED widget
       ELSE \E j \in AsyncLocals :
               LET r == refresh(widget, config, RemoteOutcomes[1], LocalOutcomes[j]) IN
               /\ widget' = r.widget
               /\ coros' = [coros EXCEPT ![p] = Refreshed(r, widget)]
               /\ UNCHANGED loop
    /\ UNCHANGED <<proc, storeVars, disk, config, now, nops, ret, lock>>

\* httpx.get returns or raises in coroutine p, and refresh() runs to its end
FetchDone(p) ==
    /\ loop = p
    /\ coros[p].pc = "fetching"
    /\ \E i \in AsyncRemotes, j \in AsyncLocals :
          LET r == refresh(widget, config, RemoteOutcomes[i], LocalOutcomes[j]) IN
          /\ widget' = r.widget
          /\ coros' = [coros EXCEPT ![p] = Refreshed(r, widget)]
    /\ loop' = 0
    /\ UNCHANGED <<proc, storeVars, disk, config, now, nops, ret, lock>>

NextAsync ==
    \E p \in Coros :
        \/ StoreCall(p)
        \/ StoreWake(p)
        \/ WriteDone(p)
        \/ RefreshCall(p)
        \/ FetchDone(p)

SpecAsync == InitAsync /\ [][NextAsync]_vars

\* ------------------------------------------------------------------- claims

\* The step is a call of TODO_STORE.remove_task
IsRemove == ret'.op = "remove_task"

\* The step is a call of TODO_STORE.add_task
IsAdd == ret'.op = "add_task"

\* The step is a call-tool request for the tool named name
IsCall(name) == ret'.op = "call_tool" /\ ret'.tool_name = name

StoreUnchanged ==
    /\ tasks' = tasks
    /\ completed_total' = completed_total
    /\ completed_log' = completed_log
    /\ last_completed_at' = last_completed_at

\* C1: every stats object a snapshot returns has total = active + completed,
\* with active the number of tasks of that snapshot and completed the store's
\* completed count.
C1_StatsTotal ==
    ret.op = "snapshot" =>
        /\ ret.value.stats.total = ret.value.stats.active + ret.value.stats.completed
        /\ ret.value.stats.active = Len(ret.value.tasks)
        /\ ret.value.stats.completed = completed_total

\* A snapshot taken after a mutation, with active and completed tasks.
C1_Witness ==
    /\ ret.op = "snapshot"
    /\ nops >= 2
    /\ ret.value.stats.active = 2
    /\ ret.value.stats.completed = 1
    /\ ret.value.stats.total = 3

\* C2: remove_task of an active id returns that task, takes exactly it out of
\* the active tasks (the others keep their places), adds 1 to the completed
\* count, sets the last-completed timestamp and appends, as the last entry of
\* the log, a record with the task's id and title.
C2_RemoveExisting ==
    [][(IsRemove /\ HasKey(tasks, ret'.task_id)) =>
        LET k == IndexOf(tasks, ret'.task_id) IN
        /\ ret'.found
        /\ ret'.value = tasks[k]
        /\ Len(tasks') = Len(tasks) - 1
        /\ \A i \in 1..Len(tasks') : tasks'[i] = tasks[IF i < k THEN i ELSE i + 1]
        /\ completed_total' = completed_total + 1
        /\ last_completed_at' = Some(IsoZ(now'))
        /\ completed_log' # <<>>
        /\ completed_log'[Len(completed_log')] =
              [id |-> tasks[k].id, title |-> tasks[k].title,
               completed_at |-> IsoZ(now')]
      ]_vars

\* A removal of the first of several active tasks has happened.
C2_Witness ==
    /\ ret.op = "remove_task"
    /\ ret.found
    /\ ret.value.id = <<"welcome">>
    /\ Len(tasks) = 2
    /\ completed_total = 1
    /\ completed_log[Len(completed_log)].id = <<"welcome">>

\* The store half of C3: remove_task of an id that is not active returns None
\* and changes nothing.
StoreRemoveMissing ==
    [][(IsRemove /\ ~HasKey(tasks, ret'.task_id)) =>
        /\ ~ret'.found
        /\ ret'.value = None
        /\ StoreUnchanged
        /\ disk' = disk
      ]_vars

\* C3: remove_task of an id that is not active returns None and leaves the
\* active tasks, the completed count, the log and the last-completed
\* timestamp unchanged; the remove-task tool then answers with an error result
\* that carries the current snapshot.
C3_RemoveMissing ==
    [][/\ (IsRemove /\ ~HasKey(tasks, ret'.task_id)) =>
              (~ret'.found /\ ret'.value = None /\ StoreUnchanged)
       /\ (/\ IsCall("remove-task")
           /\ Strip(ArgStr(ret'.args.id)) # <<>>
           /\ ~HasKey(tasks, Strip(ArgStr(ret'.args.id)))) =>
              /\ StoreUnchanged
              /\ ret'.result.kind = "result"
              /\ ret'.result.isError
              /\ ret'.result.structured
              /\ ret'.result.structuredContent =
                    [tasks |-> tasks, stats |-> stats_unlocked(CurrentStore),
                     completedTasks |-> completed_log]
      ]_vars

\* C4: an add-task call whose title is missing, empty or only whitespace is
\* answered with the error result "Please provide a task title." and leaves
\* the store and the state file unchanged.
C4_BlankTitleRejected ==
    [][(IsCall("add-task") /\ ret'.args.title.t \in {"missing", "str"}
            /\ Strip(ArgStr(ret'.args.title)) = <<>>) =>
        /\ StoreUnchanged
        /\ disk' = disk
        /\ ret'.result.kind = "result"
        /\ ret'.result.isError
        /\ ret'.result.text = [msg |-> "Please provide a task title."]
      ]_vars

\* C5 as stated: add_task fails with a validation error when the title is
\* empty after trimming, adds no task and leaves the store unchanged.
C5_AddValidates ==
    [][(IsAdd /\ Strip(ret'.title) = <<>>) =>
        /\ ret'.exc = "ValidationError"
        /\ StoreUnchanged
      ]_vars

\* C5 as amended: add_task does not validate. With a title that is empty
\* after trimming it raises nothing, stores a task with the empty title under
\* the generated id and returns it; the completed count, the log and the
\* last-completed timestamp stay as they were.
C5_AddBlankStored ==
    [][(IsAdd /\ Strip(ret'.title) = <<>>) =>
        /\ ret'.exc = "none"
        /\ ret'.value.title = <<>>
        /\ HasKey(tasks', ret'.value.id)
        /\ tasks'[IndexOf(tasks', ret'.value.id)] = ret'.value
        /\ completed_total' = completed_total
        /\ completed_log' = completed_log
        /\ last_completed_at' = last_completed_at
      ]_vars

\* add_task was called with a whitespace title and a task with the empty
\* title is active.
C5_Witness ==
    /\ ret.op = "add_task"
    /\ ret.title = <<" ">>
    /\ \E i \in 1..Len(tasks) : tasks[i].title = <<>> /\ tasks[i] = ret.value

\* C6: every add creates a task whose id differs from the id of every active
\* task: the active count grows by exactly 1 and no active task is replaced
\* or lost.
C6_AddFreshId ==
    [][IsAdd =>
        /\ ~HasKey(tasks, ret'.value.id)
        /\ Len(tasks') = Len(tasks) + 1
        /\ \A i \in 1..Len(tasks) : tasks'[i] = tasks[i]
      ]_vars

\* The records of the state file d that _load_state accepts for the log
FileRecords(d) ==
    RecsOfItems(SelectSeq(d.v.completedTasks.items, IsLogItem))

\* C7: the completion log never holds more than LogCap records: not after the
\* load at startup, which keeps the last LogCap records of the file in their
\* order, and not after a removal, which appends its record and, when the log
\* was full, drops the oldest one.
C7_LogCapped ==
    /\ Len(completed_log) <= LogCap
    /\ [][/\ Len(completed_log') <= LogCap
          /\ (IsRemove /\ ret'.found) =>
                completed_log' =
                    Append(IF Len(completed_log) >= LogCap
                           THEN Tail(completed_log) ELSE completed_log,
                           [id |-> ret'.value.id, title |-> ret'.value.title,
                            completed_at |-> IsoZ(now')])
          /\ (/\ ret'.op = "restart" /\ proc' = "running"
              /\ disk.k = "json" /\ disk.v.completedTasks.t = "list") =>
                LET recs == FileRecords(disk)
                    n == Len(completed_log')
                IN /\ n = Min(Len(recs), LogCap)
                   /\ \A i \in 1..n : completed_log'[i] = recs[Len(recs) - n + i]
         ]_vars

\* A removal found the log full and dropped its oldest record.
C7_Witness ==
    /\ ret.op = "remove_task"
    /\ ret.found
    /\ Len(completed_log) = LogCap
    /\ completed_log[1] = OldRec(2)
    /\ completed_log[LogCap].id = ret.task_id

\* C8: for every store state, the one with no active tasks included, writing
\* the state and loading it at startup gives the same active tasks in the same
\* order, the same completed count and the same log.
C8_RoundTrip ==
    [][(ret'.op = "restart" /\ disk = FileJson(serialize_state(CurrentStore))) =>
        /\ proc' = "running"
        /\ tasks' = tasks
        /\ completed_total' = completed_total
        /\ completed_log' = completed_log
      ]_vars

\* The round trip of C8 for the states that have an active task.
RoundTripNonEmpty ==
    [][(/\ ret'.op = "restart"
        /\ disk = FileJson(serialize_state(CurrentStore))
        /\ tasks # <<>>) =>
        /\ proc' = "running"
        /\ StoreUnchanged
      ]_vars

\* The remote step of a refresh was entered and did not give a descriptor.
RemoteFailed(r) ==
    \/ r.remote.k = "error"
    \/ ~Truthy(r.remote.v)
    \/ ~derive_asset_paths(r.remote.v).ok

\* The local build directory holds a manifest with a CSS and a JS entrypoint.
LocalValid(r) == r.local.k = "json" /\ derive_asset_paths(r.local.v).ok

\* C9: refresh never raises: whatever the remote request and the local file
\* give, it returns a widget descriptor.
C9_RefreshNeverRaises ==
    ret.op = "refresh" => (~ret.raised /\ ret.value = widget)

\* C10: when the remote step fails, for whatever reason, and the local
\* manifest is valid, refresh returns and caches the descriptor built from the
\* local manifest, which is not the placeholder.
C10_LocalFallback ==
    (/\ ret.op = "refresh"
     /\ config.use_deployed /\ StartsWithHttp(config.server_url)
     /\ RemoteFailed(ret)
     /\ LocalValid(ret)) =>
        /\ ~ret.raised
        /\ ret.value = build_snapshot(derive_asset_paths(ret.local.v),
                                      config.server_url)
        /\ ret.value # Placeholder
        /\ widget = ret.value

\* The fallback of C10 for the failures of the request itself.
LocalFallbackOnFetchError ==
    (/\ ret.op = "refresh"
     /\ ret.remote.k = "error"
     /\ LocalValid(ret)) =>
        /\ ~ret.raised
        /\ ret.value = build_snapshot(derive_asset_paths(ret.local.v),
                                      config.server_url)
        /\ ret.value # Placeholder
        /\ widget = ret.value


\* The coroutines inside the `async with self._lock` block of a store method
InLockSection == {p \in Coros : coros[p].pc = "writing"}

\* Coroutine p returns from snapshot() in this step
SnapshotReturns(p) ==
    /\ coros[p].pc # "done"
    /\ coros'[p].pc = "done"
    /\ coros'[p].op = "snapshot"

\* C11: under every interleaving of concurrent snapshot, add_task and
\* remove_task calls the store's operations run one at a time: at most one
\* coroutine is inside a lock section, which holds the lock; a snapshot returns
\* only while no add or remove is under way and returns the complete store
\* state; and every write that changes the state file to a JSON document makes
\* it the serialization of the complete in-memory state of that moment, so an
\* older state never replaces a newer one.
C11_StoreSerialized ==
    /\ [](Cardinality(InLockSection) <= 1)
    /\ [](InLockSection # {} => lock.locked)
    /\ [][/\ \A p \in Coros :
                SnapshotReturns(p) =>
                    /\ InLockSection = {}
                    /\ coros'[p].value = snapshot(CurrentStore)
                    /\ coros'[p].value.stats.total =
                          Len(coros'[p].value.tasks) + completed_total
          /\ (disk' # disk /\ disk'.k = "json") =>
                disk' = FileJson(serialize_state(CurrentStore'))
         ]_vars

\* Two mutations ran on the loop at once: the second waited for the lock while
\* the first one's write was under way, both writes succeeded, and the file
\* holds the final state.
C11_Witness ==
    /\ \E p, q \in Coros :
          /\ p # q
          /\ coros[p].pc = "done" /\ coros[q].pc = "done"
          /\ coros[p].op = "add_task" /\ coros[q].op = "remove_task"
          /\ coros[q].found /\ coros[q].waited
          /\ coros[p].wr = "ok" /\ coros[q].wr = "ok"
    /\ disk = FileJson(serialize_state(CurrentStore))

\* C12: every call-tool request, whatever the tool name and the arguments,
\* is answered by a result whose _meta carries the widget resource of the
\* cached descriptor: its template URI and its HTML.
C12_ResponseEmbedsWidget ==
    [][ret'.op = "call_tool" =>
        /\ ret'.result.kind = "result"
        /\ ret'.result.has_meta
        /\ ret'.result.meta.widget_resource.uri = widget'.template_uri
        /\ ret'.result.meta.widget_resource.text = widget'.html
      ]_vars

\* The file holds no state _load_state can use: it is absent, unreadable, no
\* JSON object, or an object without a list of tasks.
NoUsableState(d) ==
    \/ d.k \in {"absent", "corrupt"}
    \/ d.v.t # "dict"
    \/ d.v.tasks.t # "list"

\* C13: the import of the module never fails, at the first start or at a
\* restart, and when the state file holds no usable state the store starts with
\* the three seeded tasks welcome, explore, clean-up in that order.
C13_SeededOnBadState ==
    /\ ret.op = "import" => proc = "running"
    /\ [][ret'.op = "restart" =>
            /\ proc' = "running"
            /\ NoUsableState(disk) =>
                  /\ Len(tasks') = 3
                  /\ tasks'[1].id = <<"welcome">>
                  /\ tasks'[2].id = <<"explore">>
                  /\ tasks'[3].id = <<"clean-up">>
         ]_vars

\* Supporting C13: a restart on an absent or unparsable file succeeds and
\* seeds the three tasks.
SeededOnUnreadable ==
    [][(ret'.op = "restart" /\ disk.k \in {"absent", "corrupt"}) =>
            /\ proc' = "running"
            /\ tasks' = initial_tasks(now')
            /\ completed_total' = 0
            /\ completed_log' = <<>>
      ]_vars

\* C14: when the write of the state file fails during add_task or
\* remove_task, the method raises nothing and returns what it returns when the
\* write succeeds, the file is as it was or truncated, and the store keeps the
\* mutation in memory; a snapshot returns the store held in memory.
C14_WriteFailureSwallowed ==
    [][/\ (IsAdd /\ ret'.wr # "ok") =>
            /\ ret'.exc = "none"
            /\ ret'.value.title = Strip(ret'.title)
            /\ HasKey(tasks', ret'.value.id)
            /\ tasks'[IndexOf(tasks', ret'.value.id)] = ret'.value
            /\ disk' \in {disk, FileCorrupt}
            /\ proc' = "running"
       /\ (IsRemove /\ ret'.wr # "ok" /\ HasKey(tasks, ret'.task_id)) =>
            /\ ret'.exc = "none"
            /\ ret'.found
            /\ ret'.value = tasks[IndexOf(tasks, ret'.task_id)]
            /\ Len(tasks') = Len(tasks) - 1
            /\ completed_total' = completed_total + 1
            /\ disk' \in {disk, FileCorrupt}
            /\ proc' = "running"
       /\ ret'.op = "snapshot" =>
            /\ ret'.value.tasks = tasks
            /\ ret'.value.stats.completed = completed_total
            /\ ret'.value.completedTasks = completed_log
      ]_vars

\* An add_task whose write failed was followed by a snapshot that lists the
\* added task, while the file does not hold it.
C14_Witness ==
    /\ ret.op = "snapshot"
    /\ disk # FileJson(serialize_state(CurrentStore))
    /\ \E i \in 1..Len(ret.value.tasks) :
          /\ ret.value.tasks[i].id \in Ids
          /\ ret.value.tasks[i].created_at # IsoZ(0)

\* The step is a read-resource request
IsRead == ret'.op = "read_resource"

\* C15: a read-resource request returns the widget HTML as its one text
\* content when the requested URI is the template URI of the descriptor its
\* own refresh returned, returns no content and an "Unknown resource" error in
\* _meta for every other URI, and leaves the task store and its file alone.
C15_ReadResource ==
    [][IsRead =>
        /\ ret'.result.kind = "result"
        /\ (ret'.uri = ret'.refreshed.template_uri) =>
              /\ Len(ret'.result.contents) = 1
              /\ ret'.result.contents[1].text = ret'.refreshed.html
              /\ ret'.result.contents[1].uri = ret'.uri
        /\ (ret'.uri # ret'.refreshed.template_uri) =>
              /\ ret'.result.contents = <<>>
              /\ ret'.result.meta.error.msg = "Unknown resource"
        /\ StoreUnchanged
        /\ disk' = disk
      ]_vars

\* Supporting C15: the same, for the requests whose refresh returns.
ReadResourceWhenRefreshed ==
    [][(IsRead /\ ret'.result.kind = "result") =>
        /\ ret'.refreshed = widget'
        /\ (ret'.uri = widget'.template_uri) =>
              /\ Len(ret'.result.contents) = 1
              /\ ret'.result.contents[1].text = widget'.html
        /\ (ret'.uri # widget'.template_uri) =>
              /\ ret'.result.contents = <<>>
              /\ ret'.result.meta.error.msg = "Unknown resource"
        /\ StoreUnchanged
        /\ disk' = disk
      ]_vars

\* C16: the active tasks stay in creation order: add_task puts the new task
\* last and leaves the tasks before it as they were, remove_task takes one
\* task out and keeps the order of the others, and snapshot lists the tasks in
\* that order.
C16_CreationOrder ==
    [][/\ IsAdd =>
            /\ tasks'[Len(tasks')] = ret'.value
            /\ SubSeq(tasks', 1, Len(tasks') - 1) = tasks
       /\ (IsRemove /\ ret'.found) =>
            tasks' = SelectSeq(tasks, LAMBDA t : t.id # ret'.task_id)
       /\ ret'.op = "snapshot" => ret'.value.tasks = tasks
      ]_vars

\* Supporting C16: the same, for the adds whose generated id is not the id of
\* an active task.
OrderKeptOnFreshAdd ==
    [][/\ (IsAdd /\ ~HasKey(tasks, ret'.value.id)) =>
            tasks' = Append(tasks, ret'.value)
       /\ (IsRemove /\ ret'.found) =>
            tasks' = SelectSeq(tasks, LAMBDA t : t.id # ret'.task_id)
       /\ ret'.op = "snapshot" => ret'.value.tasks = tasks
      ]_vars

\* The remote step of the refresh was not entered or did not give a descriptor.
RemoteStepFailed(r) ==
    \/ ~(config.use_deployed /\ StartsWithHttp(config.server_url))
    \/ RemoteFailed(r)

\* C17: when the remote step and the local step of refresh both fail, refresh
\* returns the descriptor that was cached before it, the placeholder when no
\* earlier refresh succeeded, and leaves the cache as it was.
C17_BothFailKeepCache ==
    (/\ ret.op = "refresh"
     /\ RemoteStepFailed(ret)
     /\ ~LocalValid(ret)) =>
        /\ ~ret.raised
        /\ ret.value = ret.cached
        /\ widget = ret.cached

\* Supporting C17: the same, when the remote step failed without raising.
KeepCacheOnFetchError ==
    (/\ ret.op = "refresh"
     /\ \/ ~(config.use_deployed /\ StartsWithHttp(config.server_url))
        \/ ret.remote.k = "error"
        \/ ~Truthy(ret.remote.v)
     /\ ~LocalValid(ret)) =>
        /\ ~ret.raised
        /\ ret.value = ret.cached
        /\ widget = ret.cached

\* C18: the HTML of a descriptor built by the local step refers to the CSS and
\* the JS by locally served paths, and only the HTML of a descriptor built by
\* the remote step refers to them under the remote base URL.
C18_LocalPathsOnFallback ==
    (ret.op = "refresh" /\ ~ret.raised /\ ret.step = "local") =>
        /\ ~StartsWithHttp(ret.value.html.css_href.base)
        /\ ~StartsWithHttp(ret.value.html.js_src.base)

\* C18, amended: every descriptor refresh builds, by the remote step or by the
\* local step, has an HTML shell that refers to the CSS and the JS under
\* SERVER_URL; the local step takes the two paths from the local manifest.
C18_AlwaysServerUrl ==
    (ret.op = "refresh" /\ ~ret.raised /\ ret.step \in {"local", "remote"}) =>
        /\ ret.value.html.css_href.base = config.server_url
        /\ ret.value.html.js_src.base = config.server_url
        /\ ret.step = "local" =>
              /\ ret.value.html.css_href.rel = derive_asset_paths(ret.local.v).css_rel
              /\ ret.value.html.js_src.rel = derive_asset_paths(ret.local.v).js_rel

\* A refresh whose request failed built its descriptor from the local manifest,
\* and the HTML refers to the assets under the remote base URL.
C18_Witness ==
    /\ ret.op = "refresh"
    /\ ret.step = "local"
    /\ ret.remote.k = "error"
    /\ config.use_deployed
    /\ StartsWithHttp(ret.value.html.js_src.base)
    /\ widget = ret.value

\* C19: while a coroutine's refresh waits for the answer to its manifest
\* request, the other coroutines can take their steps: a new request can run a
\* store method, and a store method whose write is under way can return.
C19_FetchDoesNotBlock ==
    \A p \in Coros :
        coros[p].pc = "fetching" =>
            \A q \in Coros :
                /\ NextToStart(q) => ENABLED StoreCall(q)
                /\ coros[q].pc = "writing" => ENABLED WriteDone(q)

RemovesRun == {p \in RemoveCoros : coros[p].pc \in {"writing", "done"}}

\* Those of them that found their task
RemovesFound == {p \in RemovesRun : coros[p].found}

\* No add_task coroutine has built a task with the id task_id
NoAddOf(task_id) ==
    \A a \in Coros :
        (coros[a].pc # "new" /\ coros[a].op = "add_task") =>
            coros[a].new_task.id # task_id

\* The records of the completion log for the id task_id
RecordsOf(task_id) ==
    {i \in 1..Len(completed_log) : completed_log[i].id = task_id}

SeededStart ==
    /\ ret.op = "import"
    /\ proc = "running"
    /\ tasks = initial_tasks(now)
    /\ \/ disk.k \in {"absent", "corrupt"}
       \/ disk = FileJson(serialize_state(CurrentStore))

\* The log is as long as min(LogCap, completed count); the last-completed
\* timestamp is None exactly when the count is 0 and otherwise the completed_at
\* of the last log record.
LogMatchesCount ==
    /\ Len(completed_log) = Min(LogCap, completed_total)
    /\ (last_completed_at = None) <=> (completed_total = 0)
    /\ completed_total > 0 =>
          last_completed_at = Some(completed_log[Len(completed_log)].completed_at)

\* The step is a call of a method of the store
IsStoreOp == ret'.op \in {"snapshot", "add_task", "remove_task"}

\* C22: a seeded start has completed count 0, and the log and the timestamp
\* match the count; every snapshot, add_task and remove_task keeps them
\* matching, whatever the count and the log length (the full log included),
\* and changes the count only by adding 1 when a remove_task finds its task:
\* so after any sequence of adds and removes from a seeded start the log length
\* is min(LogCap, count), the count is the number of successful removals and
\* never decreases, and the timestamp is None exactly when the count is 0 and
\* otherwise that of the last record.
C22_LogMatchesCount ==
    /\ SeededStart => (completed_total = 0 /\ LogMatchesCount)
    /\ [][(LogMatchesCount /\ IsStoreOp) =>
            /\ LogMatchesCount'
            /\ completed_total' =
                  completed_total + (IF IsRemove /\ ret'.found THEN 1 ELSE 0)
         ]_vars

\* A remove_task found its task when the log was full: the count is one above
\* the cap, the log holds LogCap records, and the timestamp is that of the
\* record just appended.
C22_Witness ==
    /\ ret.op = "remove_task"
    /\ ret.found
    /\ completed_total = LogCap + 1
    /\ Len(completed_log) = LogCap
    /\ LogMatchesCount
    /\ completed_log[LogCap].id = ret.value.id
====
